---- MODULE Spec2Model ----
(***************************************************************************)
(* Model of the LMS quiz backend: the quiz controllers (generate,         *)
(* getForTaking, submit), the Mongoose schemas they save through, and the  *)
(* two connectDB variants behind the ensureDbConnection middleware.        *)
(*                                                                         *)
(* Every async handler is cut at its awaits: one action per continuation.  *)
(* The handlers share nothing but the three collections, so the            *)
(* application specifications run one handler at a time; the interleaving  *)
(* of concurrent requests is modelled where they do share state, in        *)
(* connectDB (SpecDb).                                                     *)
(* Strings whose only observable aspects are their length and their        *)
(* whitespace are modelled as texts [def, lead, core, trail]: `lead'       *)
(* leading whitespace characters, `core' characters from the first to the  *)
(* last non-whitespace character, `trail' trailing whitespace characters   *)
(* (a blank string has core = 0 and all its characters in lead).           *)
(* def = FALSE is JavaScript's undefined.                                  *)
(***************************************************************************)
EXTENDS Integers, Sequences, FiniteSets, TLC

\* ------------------------------------------------------------------ bounds
MaxQuizzes == 2      \* documents in the Quiz collection
MaxResults == 1      \* documents in the Result collection
MaxBlobs == 2        \* files in the GridFS bucket
MaxQuestions == 2    \* questions in an LLM answer
MaxAnswers == 2      \* entries in a submitted answers list
NumCallers == 3      \* concurrent callers of connectDB

\* ------------------------------------------------------- program constants
MinContextLen == 50      \* contextText.trim().length < 50
TopicPrefixLen == 24     \* `Topic provided by user:\n`
SeparatorLen == 39       \* `\n\n--- Content from uploaded PDF (` + `) ---\n`

\* --------------------------------------------------------------- texts
Txt(l, c, t) == [def |-> TRUE, lead |-> l, core |-> c, trail |-> t]
Undefined == [def |-> FALSE, lead |-> 0, core |-> 0, trail |-> 0]
EmptyStr == Txt(0, 0, 0)

StrLen(s) == s.lead + s.core + s.trail

\* String.prototype.trim().length
TrimLen(s) == s.core

\* JavaScript truthiness of a string-or-undefined value
Truthy(s) == s.def /\ StrLen(s) > 0

\* a + b on strings
Concat(a, b) ==
    IF a.core = 0 /\ b.core = 0 THEN Txt(StrLen(a) + StrLen(b), 0, 0)
    ELSE IF a.core = 0 THEN Txt(StrLen(a) + b.lead, b.core, b.trail)
    ELSE IF b.core = 0 THEN Txt(a.lead, a.core, a.trail + StrLen(b))
    ELSE Txt(a.lead, a.core + a.trail + b.lead + b.core, b.trail)

\* the literal `Topic provided by user:\n`
TopicPrefix == Txt(0, TopicPrefixLen - 1, 1)

\* originalname of the uploaded file and its length
FileNames == {"a.pdf"}
NameLen(n) == 5

\* `\n\n--- Content from uploaded PDF (${sourceFilename}) ---\n`
Separator(name) == Txt(2, SeparatorLen + NameLen(name) - 3, 1)

\* `Content from ${sourceFilename}`
FallbackTopic(name) == Txt(0, 13 + NameLen(name), 0)

\* ------------------------------------------------------ the LLM's answer
\* A question as the LLM is asked to return it.  Question i of a generated
\* array has the options A, B and alternates the correct one.
Letters == <<"A", "B">>
QuestionTexts == <<"q1", "q2", "q3", "q4">>
LlmQuestion(i) ==
    [questionText |-> QuestionTexts[i], options |-> Letters,
     correctAnswer |-> Letters[((i - 1) % 2) + 1]]
\* a question the question schema rejects: a single option
OneOptionQuestion ==
    [questionText |-> "q1", options |-> <<"A">>, correctAnswer |-> "A"]

GoodArray(n) == [i \in 1..n |-> LlmQuestion(i)]
Payloads ==
    {[kind |-> "array", items |-> GoodArray(n)] : n \in 0..MaxQuestions}
    \cup {[kind |-> "array", items |-> <<OneOptionQuestion>>],
          [kind |-> "object", items |-> <<>>],
          [kind |-> "garbage", items |-> <<>>]}
Garbage == [kind |-> "garbage", items |-> <<>>]

\* aiResponse.text after trim(): an optional opening fence, the payload, and
\* an optional closing fence
AiResponses == [fence : {"none", "json", "plain"}, closed : BOOLEAN, payload : Payloads]

\* cleanedText: slice(7, -3) or slice(3, -3) drops the opening fence and the
\* last three characters, whatever they are; without a closing fence those are
\* the end of the payload, and what is left does not parse.
CleanedText(resp) ==
    IF resp.fence = "none"
    THEN IF resp.closed THEN Garbage ELSE resp.payload
    ELSE IF resp.closed THEN resp.payload ELSE Garbage

\* JSON.parse(cleanedText) and the check that follows: ok = FALSE is the catch
\* branch (a SyntaxError, or the Error thrown for a non-array or empty array)
ParseNoLengthCheck(resp) ==
    LET parsed == CleanedText(resp) IN
    [ok |-> parsed.kind = "array", questions |-> parsed.items]
ParseAiResponse(resp) ==
    LET parsed == CleanedText(resp) IN
    IF parsed.kind = "array" /\ Len(parsed.items) # 0
    THEN [ok |-> TRUE, questions |-> parsed.items]
    ELSE [ok |-> FALSE, questions |-> <<>>]

\* ------------------------------------------------------------- the schemas
NullName == "<null>"     \* sourceFilename = null
NullId == 0              \* no ObjectId; generated ids count from 1
SourceTypes == {"text", "pdf", "combined"}

\* questionSchema: questionText and correctAnswer required, options.length > 1
QuestionValid(q) ==
    /\ q.questionText # ""
    /\ Len(q.options) > 1
    /\ q.correctAnswer # ""

\* quizSchema: title is trimmed, then required; topic required (a required
\* string fails on '' only); sourceType in the enum; every question valid
TrimTitle(t) == Txt(0, t.core, 0)
QuizValid(doc) ==
    /\ StrLen(doc.title) > 0
    /\ Truthy(doc.topic)
    /\ doc.sourceType \in SourceTypes
    /\ \A i \in 1..Len(doc.questions) : QuestionValid(doc.questions[i])

\* the _id of question i of quiz n, and ObjectId.prototype.toString()
QuestionId(n, i) == n * 10 + i
ObjectIdToString(oid) == <<"oid", oid>>

\* ------------------------------------------------------------ request inputs
Titles == {Undefined, EmptyStr, Txt(1, 0, 0), Txt(0, 1, 0)}
Topics == {Undefined, EmptyStr, Txt(2, 0, 0), Txt(0, 25, 0), Txt(0, 26, 0), Txt(1, 25, 1)}
\* what the text extractor may return for the uploaded bytes
PdfTexts == {EmptyStr, Txt(3, 0, 0), Txt(0, 49, 0), Txt(0, 50, 0), Txt(1, 49, 1)}

\* req.params.id: a well-formed ObjectId (that of quiz n, whether or not quiz n
\* exists yet) or a string that does not cast to an ObjectId
IdParams == {[wf |-> TRUE, n |-> k] : k \in 1..MaxQuizzes} \cup {[wf |-> FALSE, n |-> 0]}
NoParam == [wf |-> FALSE, n |-> 0]

\* req.body.answers: absent, or a list of {questionId, answer}.  The ids are
\* those quiz n gives its questions 1..MaxQuestions, so that a shorter quiz is
\* also sent answers to questions it does not have.
AnswersFor(n) ==
    {[questionId |-> ObjectIdToString(QuestionId(n, i)), answer |-> a] :
        i \in 1..MaxQuestions, a \in {"A", "B"}}
SeqsUpTo(S, k) == UNION {[1..m -> S] : m \in 0..k}
AnswerInputs(id) ==
    {[def |-> TRUE, list |-> l] :
        l \in SeqsUpTo(IF id.wf THEN AnswersFor(id.n) ELSE {}, MaxAnswers)}
    \cup {[def |-> FALSE, list |-> <<>>]}
NoAnswers == [def |-> FALSE, list |-> <<>>]

\* ------------------------------------------------------------------- state
VARIABLES
    req,        \* the handler in progress: its position, its locals, its response
    quizzes,    \* the Quiz collection, in insertion order; quiz n has _id n
    results,    \* the Result collection, in insertion order
    blobs,      \* the GridFS bucket 'uploads'; file n has id n
    connPromise, bucket, isConnected,   \* module variables of config/db.js
    variant,    \* which connectDB is deployed: "promise" or "flag"
    callers,    \* per request in ensureDbConnection: its position and its connection
    connects,   \* mongoose.connect calls started so far
    exited      \* process.exit(1) was called

vars == <<req, quizzes, results, blobs, connPromise, bucket, isConnected, variant, callers, connects, exited>>
appVars == <<req, quizzes, results, blobs>>
dbVars == <<connPromise, bucket, isConnected, variant, callers, connects, exited>>

NoQuiz ==
    [_id |-> NullId, title |-> EmptyStr, topic |-> EmptyStr, questions |-> <<>>,
     sourceType |-> "", sourceFilename |-> NullName, sourceFileId |-> NullId]
NoResult ==
    [_id |-> NullId, quiz |-> NullId, score |-> 0, totalQuestions |-> 0,
     submittedAnswers |-> <<>>]
NoBody == [message |-> ""]

IdleReq ==
    [kind |-> "idle", pc |-> "idle",
     title |-> Undefined, topic |-> Undefined, hasFile |-> FALSE, originalname |-> NullName,
     contextText |-> EmptyStr, sourceType |-> "", sourceFilename |-> NullName,
     sourceFileId |-> NullId, questions |-> <<>>, llmInvoked |-> FALSE,
     savedQuizId |-> NullId,
     id |-> NoParam, userAnswers |-> NoAnswers, quiz |-> NoQuiz, newResult |-> NoResult,
     status |-> 0, body |-> NoBody]

\* res.status(code).json(body): the handler is over
Respond(rec, code, b) == [rec EXCEPT !.pc = "done", !.status = code, !.body = b]
Message(m) == [message |-> m]

\* the response has gone out; the next request comes in
ResponseSent ==
    /\ req.pc = "done"
    /\ req' = IdleReq
    /\ UNCHANGED <<quizzes, results, blobs, dbVars>>

\* ------------------------------------------------------ generateQuizController
\* the two validations before the try block
TitleUndefinedOnly(title) == ~title.def
TitleMissing(title) == ~Truthy(title)
SourceMissing(topic, hasFile) == ~hasFile /\ (~Truthy(topic) \/ TrimLen(topic) = 0)

\* topic && topic.trim().length > 0
TopicUsable(topic) == Truthy(topic) /\ TrimLen(topic) > 0

\* the context check and what follows it up to the await on chain.call
ThresholdOffByOne(ctx) == TrimLen(ctx) < MinContextLen - 1
ContextTooShort(ctx) == TrimLen(ctx) < MinContextLen

AfterContext(rec) ==
    IF ContextTooShort(rec.contextText)
    THEN Respond(rec, 400, Message("Could not find sufficient text from the provided sources to generate a quiz."))
    ELSE [rec EXCEPT !.pc = "llm", !.llmInvoked = TRUE]

\* the handler from its entry to its first await, for a request drawn from the
\* given titles, topics and file choices
GenerateStartWith(titles, topics, files) ==
    /\ req.pc = "idle"
    /\ Len(quizzes) < MaxQuizzes
    /\ \E title \in titles, topic \in topics, hasFile \in files, name \in FileNames :
        /\ hasFile => Len(blobs) < MaxBlobs
        /\ LET rec0 == [IdleReq EXCEPT !.kind = "generate", !.title = title,
                                       !.topic = topic, !.hasFile = hasFile,
                                       !.originalname = IF hasFile THEN name ELSE NullName]
               rec1 == IF TopicUsable(topic)
                       THEN [rec0 EXCEPT !.contextText = Concat(TopicPrefix, topic),
                                         !.sourceType = "text"]
                       ELSE rec0
           IN  req' = IF TitleMissing(title)
                      THEN Respond(rec0, 400, Message("A quiz title is required."))
                      ELSE IF SourceMissing(topic, hasFile)
                      THEN Respond(rec0, 400, Message("Please provide either a topic or a PDF file to generate the quiz."))
                      ELSE IF hasFile
                      THEN [rec1 EXCEPT !.pc = "upload"]
                      ELSE AfterContext(rec1)
    /\ UNCHANGED <<quizzes, results, blobs, dbVars>>

GenerateStart == GenerateStartWith(Titles, Topics, BOOLEAN)

ServerError == Message("An error occurred on the server while generating the quiz.")

\* the upload stream finished: the file is in the bucket, pdf() is called
UploadSkipped ==
    /\ req.pc = "upload"
    /\ req' = [req EXCEPT !.pc = "extract",
                          !.sourceFileId = Len(blobs) + 1,
                          !.sourceFilename = req.originalname]
    /\ UNCHANGED <<quizzes, results, blobs, dbVars>>
UploadFinished ==
    /\ req.pc = "upload"
    /\ blobs' = Append(blobs, [filename |-> req.originalname])
    /\ req' = [req EXCEPT !.pc = "extract",
                          !.sourceFileId = Len(blobs) + 1,
                          !.sourceFilename = req.originalname]
    /\ UNCHANGED <<quizzes, results, dbVars>>

\* getBucket() threw, or the upload stream emitted 'error'
UploadFailed ==
    /\ req.pc = "upload"
    /\ req' = Respond(req, 500, ServerError)
    /\ UNCHANGED <<quizzes, results, blobs, dbVars>>

\* pdf() resolved with pdfData.text
SourceTypeKept(st) == st
SourceTypeWithFile(st) == IF st = "text" THEN "combined" ELSE "pdf"

Extracted ==
    /\ req.pc = "extract"
    /\ \E text \in PdfTexts :
        LET separator == IF StrLen(req.contextText) > 0
                         THEN Separator(req.sourceFilename) ELSE EmptyStr
            ctx == IF Truthy(text)
                   THEN Concat(req.contextText, Concat(separator, text))
                   ELSE req.contextText
        IN  req' = AfterContext([req EXCEPT !.contextText = ctx,
                                            !.sourceType = SourceTypeWithFile(req.sourceType)])
    /\ UNCHANGED <<quizzes, results, blobs, dbVars>>

\* pdf() rejected
ExtractFailed ==
    /\ req.pc = "extract"
    /\ req' = Respond(req, 500, ServerError)
    /\ UNCHANGED <<quizzes, results, blobs, dbVars>>

\* chain.call resolved: parse, then start the save
LlmAnswered ==
    /\ req.pc = "llm"
    /\ \E resp \in AiResponses :
        LET parsed == ParseAiResponse(resp) IN
        req' = IF parsed.ok
               THEN [req EXCEPT !.pc = "save", !.questions = parsed.questions]
               ELSE Respond(req, 500, Message("Failed to parse AI response. The format was invalid."))
    /\ UNCHANGED <<quizzes, results, blobs, dbVars>>

\* chain.call rejected
LlmFailed ==
    /\ req.pc = "llm"
    /\ req' = Respond(req, 500, ServerError)
    /\ UNCHANGED <<quizzes, results, blobs, dbVars>>

\* new Quiz({...}) for the request's locals, as Mongoose casts it; n is its _id
NewQuiz(rec, n) ==
    [_id |-> n,
     title |-> TrimTitle(rec.title),
     topic |-> IF Truthy(rec.topic) THEN rec.topic ELSE FallbackTopic(rec.sourceFilename),
     questions |-> [i \in 1..Len(rec.questions) |->
                      [_id |-> QuestionId(n, i),
                       questionText |-> rec.questions[i].questionText,
                       options |-> rec.questions[i].options,
                       correctAnswer |-> rec.questions[i].correctAnswer]],
     sourceType |-> rec.sourceType,
     sourceFilename |-> rec.sourceFilename,
     sourceFileId |-> rec.sourceFileId]

\* newQuiz.save() resolved
QuizSaved ==
    /\ req.pc = "save"
    /\ LET doc == NewQuiz(req, Len(quizzes) + 1) IN
        /\ QuizValid(doc)
        /\ quizzes' = Append(quizzes, doc)
        /\ req' = Respond([req EXCEPT !.savedQuizId = doc._id], 201,
                          [message |-> "Quiz generated and saved successfully!",
                           quizId |-> doc._id, data |-> doc])
    /\ UNCHANGED <<results, blobs, dbVars>>

\* newQuiz.save() rejected: a ValidationError, or the database failed
QuizSaveFailed ==
    /\ req.pc = "save"
    /\ req' = Respond(req, 500, ServerError)
    /\ UNCHANGED <<quizzes, results, blobs, dbVars>>

\* -------------------------------------------------- getQuizForTakingController
GetForTakingStart ==
    /\ req.pc = "idle"
    /\ \E id \in IdParams :
        req' = [IdleReq EXCEPT !.kind = "getForTaking", !.pc = "fetch", !.id = id]
    /\ UNCHANGED <<quizzes, results, blobs, dbVars>>

RECURSIVE Reverse(_)
Reverse(s) == IF s = <<>> THEN <<>> ELSE Append(Reverse(Tail(s)), Head(s))

\* Result.find({ quiz: quizId }).sort({ createdAt: -1 })
ResultsOf(n) ==
    LET OfQuiz(x) == x.quiz = n IN Reverse(SelectSeq(results, OfQuiz))

\* quiz.questions.map(q => ({ _id, questionText, options }))
QuestionForStudent(q) ==
    [_id |-> q._id, questionText |-> q.questionText, options |-> q.options]

\* Promise.all([findById, find]) settled
Fetched ==
    /\ req.pc = "fetch"
    /\ req' = IF ~req.id.wf \/ req.id.n > Len(quizzes)
              THEN Respond(req, 404, Message("Quiz not found."))
              ELSE LET quiz == quizzes[req.id.n] IN
                   Respond([req EXCEPT !.quiz = quiz], 200,
                      [quiz |-> [_id |-> quiz._id, title |-> quiz.title,
                                 questions |-> [i \in 1..Len(quiz.questions) |->
                                                  QuestionForStudent(quiz.questions[i])]],
                       results |-> ResultsOf(req.id.n)])
    /\ UNCHANGED <<quizzes, results, blobs, dbVars>>

\* ----------------------------------------------------------- submitQuizController
SubmitStart ==
    /\ req.pc = "idle"
    /\ Len(results) < MaxResults
    /\ \E id \in IdParams :
        \E answers \in AnswerInputs(id) :
            req' = [IdleReq EXCEPT !.kind = "submit", !.pc = "find",
                                   !.id = id, !.userAnswers = answers]
    /\ UNCHANGED <<quizzes, results, blobs, dbVars>>

\* userAnswers.find(ans => ans.questionId === correctQuestion._id.toString()):
\* the index of the first match, 0 for undefined
RECURSIVE FindFrom(_, _, _)
FindFrom(list, key, k) ==
    IF k > Len(list) THEN 0
    ELSE IF list[k].questionId = key THEN k
    ELSE FindFrom(list, key, k + 1)
FindLast(list, key) ==
    LET hits == {k \in 1..Len(list) : list[k].questionId = key} IN
    IF hits = {} THEN 0 ELSE CHOOSE k \in hits : \A j \in hits : j <= k
FindAnswer(list, key) == FindFrom(list, key, 1)

\* one pass of the forEach body; isCorrect is "undefined" when no answer matched
\* (undefined && ... is undefined)
GradeOne(q, list) ==
    LET k == FindAnswer(list, ObjectIdToString(q._id))
        isCorrect == IF k = 0 THEN "undefined"
                     ELSE IF list[k].answer = q.correctAnswer THEN "true" ELSE "false"
    IN  [questionId |-> q._id,
         questionText |-> q.questionText,
         submittedAnswer |-> IF k # 0 THEN list[k].answer ELSE "No Answer",
         correctAnswer |-> q.correctAnswer,
         isCorrect |-> isCorrect]

\* quiz.questions.forEach(...): score and detailedResults after questions 1..k
RECURSIVE Grade(_, _, _)
Grade(questions, list, k) ==
    IF k = 0 THEN [score |-> 0, detailedResults |-> <<>>]
    ELSE LET before == Grade(questions, list, k - 1)
             entry == GradeOne(questions[k], list)
         IN  [score |-> IF entry.isCorrect = "true" THEN before.score + 1 ELSE before.score,
              detailedResults |-> Append(before.detailedResults, entry)]

\* totalQuestions of the new Result
AnswerCount(quiz, list) == Len(list)
TotalQuestions(quiz, list) == Len(quiz.questions)

SubmitError == Message("An error occurred on the server while submitting the quiz.")

\* Quiz.findById settled: 404, or the grading and the start of the save
QuizFound ==
    /\ req.pc = "find"
    /\ req' = IF ~req.id.wf
              THEN Respond(req, 500, SubmitError)          \* CastError, caught at 473
              ELSE IF req.id.n > Len(quizzes)
              THEN Respond(req, 404, Message("Quiz not found."))
              ELSE IF ~req.userAnswers.def
              THEN Respond(req, 500, SubmitError)          \* TypeError on undefined.find
              ELSE LET quiz == quizzes[req.id.n]
                       g == Grade(quiz.questions, req.userAnswers.list, Len(quiz.questions))
                   IN  [req EXCEPT !.pc = "saveResult", !.quiz = quiz,
                                   !.newResult = [_id |-> NullId, quiz |-> req.id.n,
                                                  score |-> g.score,
                                                  totalQuestions |-> TotalQuestions(quiz, req.userAnswers.list),
                                                  submittedAnswers |-> g.detailedResults]]
    /\ UNCHANGED <<quizzes, results, blobs, dbVars>>

\* newResult.save() resolved
ResultSaved ==
    /\ req.pc = "saveResult"
    /\ LET doc == [req.newResult EXCEPT !._id = Len(results) + 1] IN
        /\ results' = Append(results, doc)
        /\ req' = Respond([req EXCEPT !.newResult = doc], 200,
                          [message |-> "Quiz submitted successfully!",
                           resultId |-> doc._id, score |-> doc.score,
                           totalQuestions |-> Len(req.quiz.questions),
                           results |-> doc.submittedAnswers])
    /\ UNCHANGED <<quizzes, blobs, dbVars>>

\* newResult.save() rejected
ResultSaveFailed ==
    /\ req.pc = "saveResult"
    /\ req' = Respond(req, 500, SubmitError)
    /\ UNCHANGED <<quizzes, results, blobs, dbVars>>

\* ---------------------------------------------------------- the application
\* the handlers run behind ensureDbConnection: the connection is up
DbConnected ==
    /\ variant = "promise"
    /\ connPromise = "fulfilled" /\ bucket = TRUE /\ isConnected = 0
    /\ callers = [c \in 1..NumCallers |-> [pc |-> "idle", conn |-> 0]]
    /\ connects = 1 /\ exited = FALSE

AppInit ==
    /\ req = IdleReq
    /\ quizzes = <<>>
    /\ results = <<>>
    /\ blobs = <<>>
    /\ DbConnected

\* quiz generation, over every input
Init == AppInit
Next ==
    \/ GenerateStart
    \/ UploadFinished
    \/ UploadFailed
    \/ Extracted
    \/ ExtractFailed
    \/ LlmAnswered
    \/ LlmFailed
    \/ QuizSaved
    \/ QuizSaveFailed
    \/ ResponseSent
Spec == Init /\ [][Next]_vars

\* delivery and grading, over quizzes generated from a topic alone (the
\* handlers below read no provenance field of a quiz)
GenerateFromTopic == GenerateStartWith({Txt(0, 1, 0)}, {Txt(0, 26, 0)}, {FALSE})
NextGrading ==
    \/ GenerateFromTopic
    \/ LlmAnswered
    \/ LlmFailed
    \/ QuizSaved
    \/ QuizSaveFailed
    \/ GetForTakingStart
    \/ Fetched
    \/ SubmitStart
    \/ QuizFound
    \/ ResultSaved
    \/ ResultSaveFailed
    \/ ResponseSent
SpecGrading == Init /\ [][NextGrading]_vars

\* ---------------------------------------- connectDB behind ensureDbConnection
\* Two connectDB are in config/db.js: one caches the promise of the connection
\* (variant "promise"), one sets a flag when the connection is up ("flag").
\* connPromise is "null", "pending" or "fulfilled"; isConnected is undefined (0)
\* or the readyState 1; a caller's conn is the mongoose.connect call that
\* serves it (0: none yet).
Callers == 1..NumCallers

\* connectDB() up to its first await, promise variant: the synchronous part of
\* the async IIFE runs inside the call, so the promise is cached before any
\* other request can run
CallPromise(c) ==
    /\ variant = "promise" /\ ~exited
    /\ callers[c].pc = "idle"
    /\ callers' = [callers EXCEPT ![c].pc = "awaiting"]
    /\ IF connPromise # "null"
       THEN UNCHANGED <<connPromise, connects>>
       ELSE connPromise' = "pending" /\ connects' = connects + 1
    /\ UNCHANGED <<bucket, isConnected, variant, exited, appVars>>

\* mongoose.connect resolved inside the IIFE: the bucket is made, the promise fulfils
PromiseFulfilled ==
    /\ variant = "promise" /\ ~exited
    /\ connPromise = "pending"
    /\ connPromise' = "fulfilled"
    /\ bucket' = TRUE
    /\ UNCHANGED <<isConnected, variant, callers, connects, exited, appVars>>

\* mongoose.connect rejected inside the IIFE
PromiseRejected ==
    /\ variant = "promise" /\ ~exited
    /\ connPromise = "pending"
    /\ connPromise' = "null"
    /\ exited' = TRUE
    /\ UNCHANGED <<bucket, isConnected, variant, callers, connects, appVars>>

\* await connectDB() returns in ensureDbConnection; next() runs
PromiseAwaited(c) ==
    /\ variant = "promise" /\ ~exited
    /\ callers[c].pc = "awaiting"
    /\ connPromise = "fulfilled"
    /\ callers' = [callers EXCEPT ![c] = [pc |-> "done", conn |-> connects]]
    /\ UNCHANGED <<connPromise, bucket, isConnected, variant, connects, exited, appVars>>

\* connectDB() up to its first await, flag variant
CallFlag(c) ==
    /\ variant = "flag" /\ ~exited
    /\ callers[c].pc = "idle"
    /\ IF isConnected # 0
       THEN /\ callers' = [callers EXCEPT ![c] = [pc |-> "done", conn |-> connects]]
            /\ UNCHANGED connects
       ELSE /\ callers' = [callers EXCEPT ![c] = [pc |-> "connecting", conn |-> connects + 1]]
            /\ connects' = connects + 1
    /\ UNCHANGED <<connPromise, bucket, isConnected, variant, exited, appVars>>

\* this caller's mongoose.connect resolved
FlagConnected(c) ==
    /\ variant = "flag" /\ ~exited
    /\ callers[c].pc = "connecting"
    /\ isConnected' = 1
    /\ bucket' = TRUE
    /\ callers' = [callers EXCEPT ![c].pc = "done"]
    /\ UNCHANGED <<connPromise, variant, connects, exited, appVars>>

\* this caller's mongoose.connect rejected
FlagRejected(c) ==
    /\ variant = "flag" /\ ~exited
    /\ callers[c].pc = "connecting"
    /\ exited' = TRUE
    /\ UNCHANGED <<connPromise, bucket, isConnected, variant, callers, connects, appVars>>

\* the request is over; its slot takes the next request
RequestOver(c) ==
    /\ ~exited
    /\ callers[c].pc = "done"
    /\ callers' = [callers EXCEPT ![c] = [pc |-> "idle", conn |-> 0]]
    /\ UNCHANGED <<connPromise, bucket, isConnected, variant, connects, exited, appVars>>

InitDb ==
    /\ req = IdleReq /\ quizzes = <<>> /\ results = <<>> /\ blobs = <<>>
    /\ variant \in {"promise", "flag"}
    /\ connPromise = "null" /\ bucket = FALSE /\ isConnected = 0
    /\ callers = [c \in Callers |-> [pc |-> "idle", conn |-> 0]]
    /\ connects = 0 /\ exited = FALSE

NextDb ==
    \/ \E c \in Callers : CallPromise(c)
    \/ PromiseFulfilled
    \/ PromiseRejected
    \/ \E c \in Callers : PromiseAwaited(c)
    \/ \E c \in Callers : CallFlag(c)
    \/ \E c \in Callers : FlagConnected(c)
    \/ \E c \in Callers : FlagRejected(c)
    \/ \E c \in Callers : RequestOver(c)
SpecDb == InitDb /\ [][NextDb]_vars

\* ================================================================== claims
IsGenerate == req.kind = "generate"
IsSubmit == req.kind = "submit"
IsGetForTaking == req.kind = "getForTaking"
Failed == req.pc = "done" /\ req.status >= 400

\* C1: no partial quiz is ever persisted.  Every stored quiz has a non-empty
\* list of questions; the store changes only in the step that ends a generate
\* call with 201, by the one quiz built from the non-empty array that call
\* parsed from its LLM answer; a step that ends a call in failure leaves the
\* store as it was.
QuizFromParsedArray(quiz, questions) ==
    /\ Len(questions) > 0
    /\ Len(quiz.questions) = Len(questions)
    /\ \A i \in 1..Len(questions) :
        /\ quiz.questions[i].questionText = questions[i].questionText
        /\ quiz.questions[i].options = questions[i].options
        /\ quiz.questions[i].correctAnswer = questions[i].correctAnswer
NoPartialQuizStep ==
    /\ quizzes' # quizzes =>
        /\ IsGenerate /\ req.pc = "save"
        /\ req'.pc = "done" /\ req'.status = 201
        /\ Len(quizzes') = Len(quizzes) + 1
        /\ SubSeq(quizzes', 1, Len(quizzes)) = quizzes
        /\ QuizFromParsedArray(quizzes'[Len(quizzes')], req.questions)
    /\ (req.pc # "done" /\ req'.pc = "done" /\ req'.status # 201) => quizzes' = quizzes
NoPartialQuiz ==
    /\ [](\A n \in 1..Len(quizzes) : Len(quizzes[n].questions) > 0)
    /\ [][NoPartialQuizStep]_vars
\* a quiz is stored, and a later call has failed after its LLM answer
WitnessNoPartialQuiz ==
    /\ Len(quizzes) = 1
    /\ IsGenerate /\ Failed /\ req.llmInvoked /\ req.status = 500
    /\ req.body = Message("Failed to parse AI response. The format was invalid.")

\* C2: every stored quiz has sourceFileId set iff sourceFilename is set iff
\* sourceType is 'pdf' or 'combined'.
Provenance ==
    \A n \in 1..Len(quizzes) :
        LET quiz == quizzes[n] IN
        /\ (quiz.sourceFileId # NullId) <=> (quiz.sourceFilename # NullName)
        /\ (quiz.sourceFileId # NullId) <=> (quiz.sourceType \in {"pdf", "combined"})
\* a quiz from a topic alone next to a quiz from a topic and a file
WitnessProvenance ==
    \E m, n \in 1..Len(quizzes) :
        /\ quizzes[m].sourceType = "text" /\ quizzes[m].sourceFileId = NullId
        /\ quizzes[n].sourceType = "combined" /\ quizzes[n].sourceFileId # NullId

\* C3: a 200 response of getForTaking has no correctAnswer field anywhere: not
\* in a question of the quiz, not in an entry of a prior result.
TakingResponseOmitsAnswers ==
    (IsGetForTaking /\ req.pc = "done" /\ req.status = 200) =>
        /\ \A i \in 1..Len(req.body.quiz.questions) :
            "correctAnswer" \notin DOMAIN req.body.quiz.questions[i]
        /\ \A k \in 1..Len(req.body.results) :
            \A i \in 1..Len(req.body.results[k].submittedAnswers) :
                "correctAnswer" \notin DOMAIN req.body.results[k].submittedAnswers[i]

\* C4: while no connection attempt has failed, mongoose.connect has been started
\* at most once, and every caller that is through connectDB is served by that
\* first connection.
ConnectOnce ==
    ~exited =>
        /\ connects <= 1
        /\ \A c \in Callers : callers[c].pc = "done" => callers[c].conn = 1

\* C5: submit grading.  The graded result has one entry per question of the quiz
\* in stored order; an unanswered question records 'No Answer' and is not
\* correct; the score is the number of correct entries.
Graded == IsSubmit /\ (req.pc = "saveResult" \/ (req.pc = "done" /\ req.status = 200))
Matches(q) ==
    {k \in 1..Len(req.userAnswers.list) :
        req.userAnswers.list[k].questionId = ObjectIdToString(q._id)}
GradingShape ==
    LET entries == req.newResult.submittedAnswers
        questions == req.quiz.questions
    IN  /\ Len(entries) = Len(questions)
        /\ \A i \in 1..Len(questions) :
            /\ entries[i].questionId = questions[i]._id
            /\ entries[i].questionText = questions[i].questionText
            /\ Matches(questions[i]) = {} =>
                /\ entries[i].submittedAnswer = "No Answer"
                /\ entries[i].isCorrect # "true"
        /\ req.newResult.score =
            Cardinality({i \in 1..Len(entries) : entries[i].isCorrect = "true"})
\* C5 as stated: an entry is correct iff some answer with the question's id has
\* the text of the stored correctAnswer.
GradingAnyMatch ==
    Graded =>
        /\ GradingShape
        /\ \A i \in 1..Len(req.quiz.questions) :
            LET q == req.quiz.questions[i] IN
            (req.newResult.submittedAnswers[i].isCorrect = "true") <=>
                (\E k \in Matches(q) : req.userAnswers.list[k].answer = q.correctAnswer)
\* C5 as amended: an entry is correct iff the first answer in the list with the
\* question's id has the text of the stored correctAnswer.
GradingFirstMatch ==
    Graded =>
        /\ GradingShape
        /\ \A i \in 1..Len(req.quiz.questions) :
            LET q == req.quiz.questions[i] IN
            (req.newResult.submittedAnswers[i].isCorrect = "true") <=>
                (\E k \in Matches(q) :
                    /\ \A j \in Matches(q) : k <= j
                    /\ req.userAnswers.list[k].answer = q.correctAnswer)
\* two questions, the first answered twice (wrongly, then rightly), the second
\* not at all
WitnessGrading ==
    /\ IsSubmit /\ req.pc = "done" /\ req.status = 200
    /\ Len(req.quiz.questions) = 2
    /\ Cardinality(Matches(req.quiz.questions[1])) = 2
    /\ req.userAnswers.list[1].answer # req.quiz.questions[1].correctAnswer
    /\ req.userAnswers.list[2].answer = req.quiz.questions[1].correctAnswer
    /\ req.body.results[2].submittedAnswer = "No Answer"
    /\ req.body.score = 0

\* C6: a submit whose id does not resolve ends with 404 and persists no Result.
Unresolved == ~req.id.wf \/ req.id.n > Len(quizzes)
SubmitUnresolvedNotFound ==
    (IsSubmit /\ Unresolved) =>
        /\ req.newResult = NoResult
        /\ req.pc = "done" => req.status = 404

\* C7: a generate call whose combined context has trimmed length below 50 ends
\* with 400 'insufficient text', never invokes the LLM and persists no quiz.
ContextBuilt ==
    /\ IsGenerate
    /\ req.sourceType \in SourceTypes
    /\ req.hasFile => req.sourceType # "text"
ShortContextRejected ==
    /\ (IsGenerate /\ req.llmInvoked) => TrimLen(req.contextText) >= 50
    /\ (ContextBuilt /\ TrimLen(req.contextText) < 50) =>
        /\ req.pc = "done" /\ req.status = 400
        /\ req.body = Message("Could not find sufficient text from the provided sources to generate a quiz.")
        /\ ~req.llmInvoked
        /\ req.savedQuizId = NullId
\* 49 characters between the whitespace the extractor returned around them
WitnessShortContext ==
    /\ ContextBuilt /\ req.hasFile /\ req.pc = "done" /\ req.status = 400
    /\ TrimLen(req.contextText) = 49 /\ StrLen(req.contextText) > 50

\* C8: a generate call with an empty title, or with no file and a topic that is
\* absent or blank, ends at once with 400 and touches neither the blob store,
\* nor the LLM, nor the quiz store.
InvalidInput ==
    \/ ~req.title.def \/ StrLen(req.title) = 0
    \/ ~req.hasFile /\ (~req.topic.def \/ req.topic.core = 0)
InvalidInputRejected ==
    (IsGenerate /\ InvalidInput) =>
        /\ req.pc = "done" /\ req.status = 400
        /\ req.body \in {Message("A quiz title is required."),
                         Message("Please provide either a topic or a PDF file to generate the quiz.")}
        /\ req.sourceFileId = NullId
        /\ ~req.llmInvoked
        /\ req.savedQuizId = NullId
\* an empty title with a usable topic and a file
WitnessInvalidInput ==
    /\ IsGenerate /\ req.pc = "done" /\ req.status = 400
    /\ req.title = EmptyStr /\ req.hasFile /\ req.topic.core > 0

\* C9: once extraction has begun in a generate call with a file, the file is in
\* the bucket under the id the call holds, and it is still there at every later
\* point of the call; when the call fails, no quiz refers to it.
Stored(fileId, name) == fileId \in 1..Len(blobs) /\ blobs[fileId].filename = name
FileStoredFirst ==
    IsGenerate =>
        /\ (req.hasFile /\ req.pc \in {"extract", "llm", "save"}) =>
            Stored(req.sourceFileId, req.originalname)
        /\ req.sourceFileId # NullId => Stored(req.sourceFileId, req.originalname)
        /\ (Failed /\ req.sourceFileId # NullId) =>
            \A n \in 1..Len(quizzes) : quizzes[n].sourceFileId # req.sourceFileId
\* a call that stored its file and then failed on the LLM's answer
WitnessFileStoredFirst ==
    /\ IsGenerate /\ Failed /\ req.status = 500 /\ req.llmInvoked
    /\ req.sourceFileId # NullId

\* C10: the totalQuestions of a Result, persisted or about to be, is the number
\* of questions of its quiz, whatever the number of submitted answers.
TotalIsQuestionCount ==
    /\ \A k \in 1..Len(results) :
        results[k].totalQuestions = Len(quizzes[results[k].quiz].questions)
    /\ Graded =>
        /\ req.newResult.totalQuestions = Len(quizzes[req.id.n].questions)
        /\ req.pc = "done" => req.body.totalQuestions = Len(quizzes[req.id.n].questions)
\* more answers than questions, one of them for a question the quiz does not have
WitnessTotalIsQuestionCount ==
    /\ IsSubmit /\ req.pc = "done" /\ req.status = 200
    /\ Len(results) = 1
    /\ Len(req.quiz.questions) = 1
    /\ Len(req.userAnswers.list) = 2
    /\ \E k \in 1..2 : req.userAnswers.list[k].questionId
                        # ObjectIdToString(req.quiz.questions[1]._id)

\* C11: every stored quiz generated purely from a file (sourceType 'pdf') has
\* the fallback description `Content from <sourceFilename>' as its topic, and
\* every stored quiz has a non-empty topic.
FallbackTopicForPdf ==
    \A n \in 1..Len(quizzes) :
        LET quiz == quizzes[n] IN
        /\ quiz.sourceType = "pdf" => quiz.topic = FallbackTopic(quiz.sourceFilename)
        /\ quiz.topic.def /\ StrLen(quiz.topic) > 0

====
